---- MODULE Spec2Model ----
(***************************************************************************)
(* lettercast: the scheduled batch run (src/src/handler.py).               *)
(*                                                                         *)
(* lambda_handler loads the podcasts, and for each podcast in turn fetches *)
(* the feed, finds the unprocessed episodes (find_unprocessed_episodes)    *)
(* and awaits process_episode_concurrent for each of them, one after the   *)
(* other; it then returns a summary.  process_episode downloads the audio, *)
(* measures it, chunks it when it is long, asks the analyzer for the       *)
(* newsletter, persists the Episode row, triggers the e-mail notification  *)
(* and removes the chunk files.                                            *)
(*                                                                         *)
(* The handler is modelled one step per call it awaits or makes; what the  *)
(* world answers (the feed served, a failing download, a failing commit)   *)
(* is chosen at the step that asks.  A podcast is its id; the handler      *)
(* reads podcast.id and podcast.name, both stand for the same podcast.     *)
(* An episode's title is its position in the feed it was read from.        *)
(***************************************************************************)
EXTENDS Integers, Sequences, FiniteSets, TLC

(* ------------------------------ bounds -------------------------------- *)

\* Longest feed the network serves in the general environment.
MaxFeedLen == 2

\* Length of the one long feed served in the batch environment.
BatchFeedLen == 6

\* Scheduled invocations of lambda_handler in one behaviour.
MaxRuns == 2

\* Chunks one streamed body has at most.
MaxChunks == 2

\* Whole minutes the audio handed to chunk_audio has at most.
MaxAudioMinutes == 3

\* The largest segment size chunk_audio is called with, in minutes.
MaxSegmentMinutes == 2
MaxContextMinutes == 41
MaxAnalysisChunks == 3

(* ------------------------- program constants -------------------------- *)

\* int(os.getenv('CHECK_MINUTES', '60'))
CHECK_MINUTES == 60

\* chunk_minutes = 20 in process_episode
chunk_minutes == 20

\* summary['errors'] = errors[:10]
ErrorCap == 10

\* DEFAULT_CONSTRAINTS['max_file_size_mb']
max_file_size_mb == 450

\* DEFAULT_CONSTRAINTS['max_download_seconds']
max_download_seconds == 840

(* ------------------------------ domains ------------------------------- *)

\* What crud.list_podcasts returns: the podcasts table, in order.
PodcastList == <<"p1", "p2">>

PodcastIds == {PodcastList[i] : i \in DOMAIN PodcastList}

\* The GUIDs feeds use.  A GUID is unique within a feed at best: two
\* podcasts may use the same one.
GuidSet == {"g1", "g2"}

\* The Episodes table's key space: UniqueConstraint('podcast_id', 'rss_guid').
Keys == PodcastIds \X GuidSet

\* A publish_date of a feed episode: a string that datetime.fromisoformat
\* parses (ok) to a timestamp `age` seconds before the deduplicator's now,
\* or one it rejects with ValueError.
PubDates ==
    { [ok |-> TRUE, age |-> CHECK_MINUTES * 60],
      [ok |-> TRUE, age |-> CHECK_MINUTES * 60 + 1],
      [ok |-> FALSE, age |-> 0] }

FeedsOfLen(k) ==
    { [i \in 1..k |-> [title |-> i, rss_guid |-> f[i][1], publish_date |-> f[i][2]]] :
        f \in [1..k -> GuidSet \X PubDates] }

\* get_recent_episodes(podcast)['episodes'] in the general environment.
GeneralFeeds == UNION { FeedsOfLen(k) : k \in 0..MaxFeedLen }

\* The batch environment: one long feed of fresh episodes whose GUIDs repeat.
BatchFeeds ==
    { [i \in 1..BatchFeedLen |->
         [title |-> i,
          rss_guid |-> IF i % 2 = 1 THEN "g1" ELSE "g2",
          publish_date |-> [ok |-> TRUE, age |-> CHECK_MINUTES * 60]]] }

\* get_audio_length(downloaded_file), in minutes.
AudioLengths == {chunk_minutes - 1, chunk_minutes, chunk_minutes + 1}

\* The calls that may fail, by the step that makes them.
AllFaults ==
    { "load", "fetch", "dedupe", "session", "download", "length", "chunk",
      "generate", "create", "commit", "notify_client", "notify_invoke",
      "cleanup" }

BatchFaults == {"session", "download"}

\* The Episodes table before the first run: empty, or holding rows that
\* earlier (possibly overlapping) runs wrote, here the same GUID under
\* every podcast, which the unique constraint on the pair allows.
InitialStores ==
    { [k \in Keys |-> 0],
      [k \in Keys |-> IF k[2] = "g1" THEN 1 ELSE 0] }

\* No result, no response yet.
None == [status |-> "none", kind |-> "none"]

(* ------------------------------- state -------------------------------- *)

VARIABLES
    store,                \* Episodes table: key -> number of rows with it
    runs,                 \* invocations of lambda_handler so far
    hpc,                  \* lambda_handler's position
    minutes,              \* lambda_handler locals ...
    podcasts,
    pidx,                 \* index of `podcast` in `podcasts`
    rss_episodes,
    unprocessed,
    eidx,                 \* index of `episode` in `unprocessed`
    total_new_episodes,
    successful_processes,
    failed_processes,
    errors,
    response,             \* what lambda_handler returned
    lookups,              \* GUIDs find_unprocessed_episodes asked the store for
    ppc,                  \* process_episode's position
    downloaded_file,      \* the downloaded temp file exists
    audio_length,
    chunk_paths,          \* len(chunk_paths)
    chunk_files,          \* chunk files of this invocation that exist
    result,               \* what process_episode returned
    generated,            \* process_podcast returned a newsletter
    committed,            \* this invocation committed its Episode row
    notified,             \* lambda_client.invoke calls that went through
    transformed,          \* transform_audio has returned in this invocation
    dpc,                  \* download_audio's position
    url,                  \* download_audio's argument
    now,                  \* time.time() - start_time, in seconds
    total_size,           \* content-length of the probe, in bytes
    response_method,      \* response.request.method
    requests_made,        \* the HTTP requests issued, in order
    temp_path,            \* temp_path is not None
    temp_files,           \* files of this call in temp_dir
    received,             \* chunks iter_content has yielded
    written,              \* per chunk written, the elapsed time at its write
    downloaded,           \* bytes written to the temp file
    download_result,      \* what download_audio returned or raised
    cpc,                  \* chunk_audio's position
    segment_minutes,      \* chunk_audio's argument chunk_minutes
    total_duration_ms,    \* len(audio)
    start_ms,             \* the loop variable of chunk_audio
    segments,             \* per path in chunk_audio's list, <<start_ms, end_ms>>
    segment_files,        \* chunk files of this call on disk
    chunk_result,         \* what chunk_audio returned or raised
    tpc,                  \* transform_audio_context's position
    chunk_minutes_arg,    \* its argument chunk_minutes, 0 for None
    full_audio_path,      \* its local full_audio_path
    chunk_paths_local,    \* its local chunk_paths
    disk,                 \* the files its transform_audio calls left on disk
    yielded,              \* the value the with-statement received
    measured_length,      \* its local audio_length, in minutes
    block_end,            \* how the with-block ended
    pending,              \* the exception the except clause is handling
    context_result,       \* how the with-statement ended
    apc,                  \* process_podcast's position
    chunk_paths_arg,      \* its argument chunk_paths
    tasks,                \* per chunk, where its analyze_chunk task stands
    task_results,         \* per chunk, what its task returned
    chunk_requests,       \* per chunk, preanalysis generate_content calls
    completion,           \* the chunks in the order their analyses completed
    analyses,             \* its local analyses
    content_parts,        \* its local content_parts
    final_calls,          \* writing_model.generate_content calls
    podcast_result        \* what process_podcast returned or raised

hvars == <<runs, hpc, minutes, podcasts, pidx, rss_episodes, unprocessed, eidx,
           total_new_episodes, successful_processes, failed_processes, errors,
           response, lookups>>

pvars == <<ppc, downloaded_file, audio_length, chunk_paths, chunk_files,
           result, generated, committed, notified, transformed>>

dvars == <<dpc, url, now, total_size, response_method, requests_made,
           temp_path, temp_files, received, written, downloaded,
           download_result>>

\* The state of the utils/ calls that are followed step by step on their own.
cvars == <<cpc, segment_minutes, total_duration_ms, start_ms, segments,
           segment_files, chunk_result>>

tvars == <<tpc, chunk_minutes_arg, full_audio_path, chunk_paths_local, disk,
           yielded, measured_length, block_end, pending, context_result>>

avars == <<apc, chunk_paths_arg, tasks, task_results, chunk_requests,
           completion, analyses, content_parts, final_calls, podcast_result>>

uvars == <<dvars, cvars, tvars, avars>>

vars == <<store, hvars, pvars, uvars>>

(* ------------------------------ helpers ------------------------------- *)

\* Python values a local of transform_audio_context can hold: a path, a
\* list, a tuple, or no binding at all.
Str(name) == [kind |-> "str", name |-> name, items |-> <<>>]
List(items) == [kind |-> "list", name |-> "", items |-> items]
Tuple(items) == [kind |-> "tuple", name |-> "", items |-> items]
Unbound == [kind |-> "unbound", name |-> "", items |-> <<>>]

Min(a, b) == IF a < b THEN a ELSE b

RECURSIVE SumCounts(_, _)
SumCounts(st, keys) ==
    IF keys = {} THEN 0
    ELSE LET k == CHOOSE x \in keys : TRUE
         IN st[k] + SumCounts(st, keys \ {k})

\* What a step can answer under `faults`: "ok", or one of `kinds` that the
\* environment allows to fail.
Outcomes(faults, kinds) == {"ok"} \cup (kinds \cap faults)

(* ---------------------- database/crud.py ------------------------------ *)

\* Mutant of get_episode_by_guid: the query finds nothing.
get_episode_never_found(st, podcast, rss_guid) == "none"

\* select(Episodes).where(Episodes.rss_guid == rss_guid): the rows matched.
EpisodesMatching(st, podcast, rss_guid) ==
    { k \in Keys : k[2] = rss_guid }

\* crud.get_episode_by_guid: result.scalar_one_or_none() gives None for no
\* row, the row for one, and raises MultipleResultsFound for more.
get_episode_by_guid(st, podcast, rss_guid) ==
    LET n == SumCounts(st, EpisodesMatching(st, podcast, rss_guid))
    IN  IF n = 0 THEN "none" ELSE IF n = 1 THEN "row" ELSE "raise"

\* Mutant of UniqueViolation: the table has no unique constraint.
NoUniqueConstraint(st, key) == FALSE

\* UniqueConstraint('podcast_id', 'rss_guid'): the INSERT at commit is
\* refused when a row with the key exists.
UniqueViolation(st, key) == st[key] >= 1

(* ---------------- handler.py: find_unprocessed_episodes --------------- *)

\* Mutant of ParseDate: a lenient parser that answers `now` for a string it
\* cannot read, as scraper.parse_datetime does.
ParseDateLenient(publish_date) ==
    [raised |-> FALSE,
     age |-> IF publish_date.ok THEN publish_date.age ELSE 0]

\* datetime.fromisoformat(publish_date.replace('Z', '+00:00'))
ParseDate(publish_date) ==
    IF publish_date.ok THEN [raised |-> FALSE, age |-> publish_date.age]
    ELSE [raised |-> TRUE, age |-> 0]

\* Mutant of OutsideWindow: the window taken in hours.
OutsideWindowHours(age, mins) == age > mins * 3600

\* time_diff.total_seconds() > minutes * 60
OutsideWindow(age, mins) == age > mins * 60

\* The loop body for episode i, then the rest of the loop.  acc holds the
\* unprocessed list so far, the store lookups made and whether a lookup raised.
RECURSIVE find_loop(_, _, _, _, _, _)
find_loop(st, podcast, eps, mins, i, acc) ==
    IF i > Len(eps) THEN acc
    ELSE
      LET episode == eps[i]
          parsed  == ParseDate(episode.publish_date)
      IN  IF parsed.raised THEN find_loop(st, podcast, eps, mins, i + 1, acc)
          ELSE IF OutsideWindow(parsed.age, mins)
               THEN find_loop(st, podcast, eps, mins, i + 1, acc)
          ELSE
            LET existing == get_episode_by_guid(st, podcast, episode.rss_guid)
                looked   == [acc EXCEPT !.lookups = Append(@, episode.rss_guid)]
            IN  IF existing = "raise" THEN [looked EXCEPT !.raised = TRUE]
                ELSE IF existing = "none"
                     THEN find_loop(st, podcast, eps, mins, i + 1,
                            [looked EXCEPT !.unprocessed = Append(@, episode)])
                ELSE find_loop(st, podcast, eps, mins, i + 1, looked)

find_unprocessed_episodes(st, podcast, eps, mins) ==
    find_loop(st, podcast, eps, mins, 1,
              [unprocessed |-> <<>>, lookups |-> <<>>, raised |-> FALSE])

(* ------------------------------- Init --------------------------------- *)

Init ==
    /\ store \in InitialStores
    /\ runs = 0
    /\ hpc = "idle"
    /\ minutes = 0
    /\ podcasts = <<>>
    /\ pidx = 0
    /\ rss_episodes = <<>>
    /\ unprocessed = <<>>
    /\ eidx = 0
    /\ total_new_episodes = 0
    /\ successful_processes = 0
    /\ failed_processes = 0
    /\ errors = <<>>
    /\ response = None
    /\ lookups = <<>>
    /\ ppc = "none"
    /\ downloaded_file = FALSE
    /\ audio_length = 0
    /\ chunk_paths = 0
    /\ chunk_files = 0
    /\ result = None
    /\ generated = FALSE
    /\ committed = FALSE
    /\ notified = 0
    /\ transformed = FALSE
    /\ dpc = "idle"
    /\ url = "https://host/a.mp3"
    /\ now = 0
    /\ total_size = 0
    /\ response_method = "none"
    /\ requests_made = <<>>
    /\ temp_path = FALSE
    /\ temp_files = 0
    /\ received = 0
    /\ written = <<>>
    /\ downloaded = 0
    /\ download_result = None
    /\ cpc = "idle"
    /\ segment_minutes = 0
    /\ total_duration_ms = 0
    /\ start_ms = 0
    /\ segments = <<>>
    /\ segment_files = 0
    /\ chunk_result = None
    /\ tpc = "idle"
    /\ chunk_minutes_arg = 0
    /\ full_audio_path = Unbound
    /\ chunk_paths_local = Unbound
    /\ disk = {}
    /\ yielded = Unbound
    /\ measured_length = 0
    /\ block_end = "none"
    /\ pending = "none"
    /\ context_result = None
    /\ apc = "idle"
    /\ chunk_paths_arg = <<>>
    /\ tasks = <<>>
    /\ task_results = <<>>
    /\ chunk_requests = <<>>
    /\ completion = <<>>
    /\ analyses = <<>>
    /\ content_parts = <<>>
    /\ final_calls = 0
    /\ podcast_result = None

(* --------------------- handler.py: lambda_handler --------------------- *)

\* The locals of a process_episode call that has done nothing yet, at pc.
FreshProcess(pc) ==
    /\ ppc' = pc
    /\ downloaded_file' = FALSE
    /\ audio_length' = 0
    /\ chunk_paths' = 0
    /\ chunk_files' = 0
    /\ result' = None
    /\ generated' = FALSE
    /\ committed' = FALSE
    /\ notified' = 0
    /\ transformed' = FALSE

\* Mutant of HandlerCatches: `except DatabaseError`, which lets a feed
\* failure through.
HandlerCatchesLoadOnly(exc) == exc = "load"

\* lambda_handler's `except Exception as e`: every failure of a call the
\* handler makes is an Exception.
HandlerCatches(exc) == TRUE

\* An exception reaches the handler's own try: the except returns
\* {'statusCode': 500, 'body': {'error': str(e), ...}}; an exception it did
\* not catch would leave the call with no response.
Respond500(msg) ==
    /\ response' = IF HandlerCatches(msg)
                   THEN [kind |-> "returned", statusCode |-> 500,
                         body |-> [error |-> msg, time_window_minutes |-> minutes]]
                   ELSE [kind |-> "raised", error |-> msg]
    /\ hpc' = "done"

\* The scheduler invokes lambda_handler; minutes is read from the environment.
Invoke ==
    /\ hpc \in {"idle", "done"}
    /\ runs < MaxRuns
    /\ runs' = runs + 1
    /\ hpc' = "load"
    /\ minutes' = CHECK_MINUTES
    /\ podcasts' = <<>>
    /\ pidx' = 0
    /\ rss_episodes' = <<>>
    /\ unprocessed' = <<>>
    /\ eidx' = 0
    /\ total_new_episodes' = 0
    /\ successful_processes' = 0
    /\ failed_processes' = 0
    /\ errors' = <<>>
    /\ response' = None
    /\ lookups' = <<>>
    /\ FreshProcess("none")
    /\ UNCHANGED store
    /\ UNCHANGED uvars

\* Where the for-loop over podcasts goes with index i: the next podcast, or
\* past the loop to the summary.
PodcastLoop(i, n) == IF i <= n THEN "fetch" ELSE "summary"

\* podcasts = await crud.list_podcasts(db); the counters are set to zero.
LoadPodcasts(faults) ==
    /\ hpc = "load"
    /\ \E o \in Outcomes(faults, {"load"}) :
         IF o = "ok"
         THEN /\ podcasts' = PodcastList
              /\ pidx' = 1
              /\ hpc' = PodcastLoop(1, Len(PodcastList))
              /\ UNCHANGED response
         ELSE /\ Respond500(o)
              /\ UNCHANGED <<podcasts, pidx>>
    /\ UNCHANGED <<store, runs, minutes, rss_episodes, unprocessed, eidx,
                   total_new_episodes, successful_processes, failed_processes,
                   errors, lookups, pvars>>
    /\ UNCHANGED uvars

\* rss_episodes = get_recent_episodes(podcast)['episodes']: no try around it
\* but the handler's own.
FetchFeed(feeds, faults) ==
    /\ hpc = "fetch"
    /\ \E o \in Outcomes(faults, {"fetch"}) :
         IF o = "ok"
         THEN /\ \E f \in feeds : rss_episodes' = f
              /\ hpc' = "dedupe"
              /\ UNCHANGED response
         ELSE /\ Respond500(o)
              /\ UNCHANGED rss_episodes
    /\ lookups' = <<>>
    /\ unprocessed' = <<>>
    /\ eidx' = 0
    /\ UNCHANGED <<store, runs, minutes, podcasts, pidx,
                   total_new_episodes, successful_processes, failed_processes,
                   errors, pvars>>
    /\ UNCHANGED uvars

\* async with AsyncSessionLocal() as db:
\*     unprocessed = await find_unprocessed_episodes(db, podcast, rss_episodes, minutes)
Dedupe(faults) ==
    /\ hpc = "dedupe"
    /\ \E o \in Outcomes(faults, {"dedupe"}) :
         LET found == find_unprocessed_episodes(store, podcasts[pidx],
                                                rss_episodes, minutes)
         IN  IF o # "ok"
             THEN /\ Respond500(o)
                  /\ UNCHANGED <<unprocessed, lookups>>
             ELSE /\ lookups' = found.lookups
                  /\ IF found.raised
                     THEN /\ Respond500("MultipleResultsFound")
                          /\ UNCHANGED unprocessed
                     ELSE /\ unprocessed' = found.unprocessed
                          /\ hpc' = "deduped"
                          /\ UNCHANGED response
    /\ UNCHANGED <<store, runs, minutes, podcasts, pidx, rss_episodes,
                   eidx, total_new_episodes, successful_processes,
                   failed_processes, errors, pvars>>
    /\ UNCHANGED uvars

\* total_new_episodes += len(unprocessed); the loop over unprocessed starts.
Tally ==
    /\ hpc = "deduped"
    /\ total_new_episodes' = total_new_episodes + Len(unprocessed)
    /\ eidx' = 1
    /\ hpc' = "episodes"
    /\ rss_episodes' = <<>>
    /\ lookups' = <<>>
    /\ UNCHANGED <<store, runs, minutes, podcasts, pidx, unprocessed,
                   successful_processes, failed_processes, errors, response, pvars>>
    /\ UNCHANGED uvars

\* result = await process_episode_concurrent(podcast, episode): the session
\* is opened and process_episode entered; when the session cannot be had the
\* handler's except counts the episode as failed, with an entry that names
\* the podcast only.
StartEpisode(faults) ==
    /\ hpc = "episodes"
    /\ eidx <= Len(unprocessed)
    /\ \E o \in Outcomes(faults, {"session"}) :
         IF o = "ok"
         THEN /\ FreshProcess("download")
              /\ hpc' = "awaiting"
              /\ UNCHANGED <<eidx, failed_processes, errors>>
         ELSE /\ FreshProcess("none")
              /\ failed_processes' = failed_processes + 1
              /\ errors' = Append(errors, [podcast |-> podcasts[pidx]])
              /\ eidx' = eidx + 1
              /\ UNCHANGED hpc
    /\ UNCHANGED <<store, runs, minutes, podcasts, pidx, rss_episodes,
                   unprocessed, total_new_episodes, successful_processes,
                   response, lookups>>
    /\ UNCHANGED uvars

\* Mutant of IsSuccess: any result that has a status counts as a success.
IsSuccessAnyStatus(res) == res.status \in {"success", "error"}

\* result.get('status') == 'success'
IsSuccess(res) == res.status = "success"

\* if result.get('status') == 'success': ... else: ... errors.append({...});
\* except Exception as e: ... errors.append({'podcast': ..., 'error': str(e)})
\* An entry names the podcast and the episode's title; its 'error' text is
\* result['error'], which nothing in the handler reads again.  The call's
\* locals are gone once it has returned.
Collect ==
    /\ hpc = "awaiting"
    /\ ppc = "returned"
    /\ IF result.status = "raised"
       THEN /\ failed_processes' = failed_processes + 1
            /\ errors' = Append(errors, [podcast |-> podcasts[pidx]])
            /\ UNCHANGED successful_processes
       ELSE IF IsSuccess(result)
       THEN /\ successful_processes' = successful_processes + 1
            /\ UNCHANGED <<failed_processes, errors>>
       ELSE /\ failed_processes' = failed_processes + 1
            /\ errors' = Append(errors, [podcast |-> podcasts[pidx],
                                         episode |-> result.title])
            /\ UNCHANGED successful_processes
    /\ eidx' = eidx + 1
    /\ hpc' = "episodes"
    /\ FreshProcess("none")
    /\ UNCHANGED <<store, runs, minutes, podcasts, pidx, rss_episodes,
                   unprocessed, total_new_episodes, response, lookups>>
    /\ UNCHANGED uvars

\* Mutant of NextPodcast: the next podcast is taken up without waiting for
\* the episodes still to be processed.
NextPodcastEarly ==
    /\ hpc = "episodes"
    /\ pidx' = pidx + 1
    /\ hpc' = PodcastLoop(pidx + 1, Len(podcasts))
    /\ unprocessed' = <<>>
    /\ eidx' = 0
    /\ UNCHANGED <<store, runs, minutes, podcasts, rss_episodes,
                   total_new_episodes, successful_processes, failed_processes,
                   errors, response, lookups, pvars>>
    /\ UNCHANGED uvars

\* The loop over unprocessed is exhausted: on to the next podcast.
NextPodcast ==
    /\ hpc = "episodes"
    /\ eidx > Len(unprocessed)
    /\ pidx' = pidx + 1
    /\ hpc' = PodcastLoop(pidx + 1, Len(podcasts))
    /\ unprocessed' = <<>>
    /\ eidx' = 0
    /\ UNCHANGED <<store, runs, minutes, podcasts, rss_episodes,
                   total_new_episodes, successful_processes, failed_processes,
                   errors, response, lookups, pvars>>
    /\ UNCHANGED uvars

\* Mutant of ErrorsHead: errors[-10:], the last ten.
ErrorsTail(errs) ==
    SubSeq(errs, Len(errs) - Min(Len(errs), ErrorCap) + 1, Len(errs))

\* errors[:10]
ErrorsHead(errs) == SubSeq(errs, 1, Min(Len(errs), ErrorCap))

\* summary = {...}; if errors: summary['errors'] = errors[:10];
\* if len(errors) > 10: summary['additional_errors_count'] = len(errors) - 10
BuildSummary(mins, total_podcasts, found, ok, failed, errs) ==
    LET base == [time_window_minutes |-> mins,
                 total_podcasts_checked |-> total_podcasts,
                 new_episodes_found |-> found,
                 successfully_processed |-> ok,
                 failed_processes |-> failed]
        withErrors == IF errs # <<>> THEN base @@ [errors |-> ErrorsHead(errs)]
                      ELSE base
    IN  IF errs # <<>> /\ Len(errs) > ErrorCap
        THEN withErrors @@ [additional_errors_count |-> Len(errs) - ErrorCap]
        ELSE withErrors

\* return {'statusCode': 200, 'body': json.dumps(summary, default=str)}
Summarise ==
    /\ hpc = "summary"
    /\ response' = [kind |-> "returned", statusCode |-> 200,
                    body |-> BuildSummary(minutes, Len(podcasts), total_new_episodes,
                                          successful_processes, failed_processes,
                                          errors)]
    /\ hpc' = "done"
    /\ UNCHANGED <<store, runs, minutes, podcasts, pidx, rss_episodes,
                   unprocessed, eidx, total_new_episodes, successful_processes,
                   failed_processes, errors, lookups, pvars>>
    /\ UNCHANGED uvars

(* --------------------- handler.py: process_episode -------------------- *)

\* ceil(length / chunk): len(range(0, total_duration_ms, chunk_duration_ms))
ChunkCount(length, chunk) == (length + chunk - 1) \div chunk

\* Mutant of ProcessCatches: `except DownloadError`.
ProcessCatchesDownloadOnly(exc) == exc = "download"

\* process_episode's `except Exception as e`: every failure of a step is an
\* Exception (DownloadError, AudioTransformationError, AnalyzerError,
\* ValueError, a database error, a boto3 error, OSError).
ProcessCatches(exc) == TRUE

\* An exception inside the with-block: download_audio_context's finally
\* unlinks the downloaded file, and the except returns the error result with
\* str(e); an exception it did not catch would leave process_episode.
\* Chunk files are left as they are.
Raise(msg) ==
    /\ downloaded_file' = FALSE
    /\ result' = IF ProcessCatches(msg)
                 THEN [status |-> "error",
                       podcast_id |-> podcasts[pidx],
                       title |-> unprocessed[eidx].title,
                       error |-> msg]
                 ELSE [status |-> "raised", error |-> msg]
    /\ ppc' = "returned"

\* with download_audio_context(episode['url']) as downloaded_file:
\* download_audio leaves no file behind when it raises.
Download(faults) ==
    /\ ppc = "download"
    /\ \E o \in Outcomes(faults, {"download"}) :
         IF o = "ok"
         THEN /\ downloaded_file' = TRUE
              /\ ppc' = "measure"
              /\ UNCHANGED result
         ELSE Raise(o)
    /\ UNCHANGED <<store, hvars, audio_length, chunk_paths, chunk_files,
                   generated, committed, notified>>
    /\ UNCHANGED <<transformed, uvars>>

\* Mutant of NeedsChunking: audio of exactly the segment size is chunked.
NeedsChunkingAtBoundary(length) == length >= chunk_minutes

\* audio_length = get_audio_length(downloaded_file);
\* if audio_length <= chunk_minutes: chunk_paths = [] else: chunk_audio(...)
NeedsChunking(length) == ~(length <= chunk_minutes)

Measure(faults) ==
    /\ ppc = "measure"
    /\ \E o \in Outcomes(faults, {"length"}) :
         IF o = "ok"
         THEN /\ \E l \in AudioLengths :
                   /\ audio_length' = l
                   /\ ppc' = IF NeedsChunking(l) THEN "chunk" ELSE "generate"
              /\ UNCHANGED <<downloaded_file, result>>
         ELSE /\ Raise(o)
              /\ UNCHANGED audio_length
    /\ UNCHANGED <<store, hvars, chunk_paths, chunk_files, generated,
                   committed, notified>>
    /\ UNCHANGED <<transformed, uvars>>

\* chunk_paths = chunk_audio(downloaded_file, chunk_minutes).  Each chunk's
\* temp file is created (delete=False) before its export; when loading the
\* audio or an export fails, the files created so far stay.
Chunk(faults) ==
    /\ ppc = "chunk"
    /\ LET n == ChunkCount(audio_length, chunk_minutes)
       IN  \E o \in Outcomes(faults, {"chunk"}) :
             IF o = "ok"
             THEN /\ chunk_paths' = n
                  /\ chunk_files' = n
                  /\ ppc' = "generate"
                  /\ UNCHANGED <<downloaded_file, result>>
             ELSE /\ \E j \in 0..n : chunk_files' = j
                  /\ Raise(o)
                  /\ UNCHANGED chunk_paths
    /\ UNCHANGED <<store, hvars, audio_length, generated, committed,
                   notified>>
    /\ UNCHANGED <<transformed, uvars>>

\* Mutant of Generate: a failed generation is not noticed and the episode
\* goes on to be stored.
GenerateUnchecked(faults) ==
    /\ ppc = "generate"
    /\ \E o \in Outcomes(faults, {"generate"}) :
         /\ generated' = (o = "ok")
         /\ ppc' = "persist"
    /\ UNCHANGED <<downloaded_file, result>>
    /\ UNCHANGED <<store, hvars, audio_length, chunk_paths, chunk_files,
                   committed, notified>>
    /\ UNCHANGED <<transformed, uvars>>

\* newsletter = await GLOBAL_ANALYZER.process_podcast(
\*     audio_path=downloaded_file, ..., chunk_paths=chunk_paths)
\* The file handed over is the download itself: process_episode calls
\* transform_audio nowhere, so `transformed` is never set.
Generate(faults) ==
    /\ ppc = "generate"
    /\ \E o \in Outcomes(faults, {"generate"}) :
         IF o = "ok"
         THEN /\ generated' = TRUE
              /\ ppc' = "persist"
              /\ UNCHANGED <<downloaded_file, result>>
         ELSE /\ Raise(o)
              /\ UNCHANGED generated
    /\ UNCHANGED <<store, hvars, audio_length, chunk_paths, chunk_files,
                   committed, notified>>
    /\ UNCHANGED <<transformed, uvars>>

\* The key of the row process_episode inserts: episode_data's podcast_id and
\* rss_guid.
EpisodeKey == <<podcasts[pidx], unprocessed[eidx].rss_guid>>

\* Mutant of Persist: a failed create or commit is swallowed and the episode
\* goes on as if it had been stored.
PersistSwallowed(faults) ==
    /\ ppc = "persist"
    /\ \E o \in Outcomes(faults, {"create", "commit"}) :
         IF o # "ok" \/ UniqueViolation(store, EpisodeKey)
         THEN UNCHANGED <<store, committed>>
         ELSE /\ store' = [store EXCEPT ![EpisodeKey] = @ + 1]
              /\ committed' = TRUE
    /\ ppc' = "notify"
    /\ UNCHANGED <<downloaded_file, result>>
    /\ UNCHANGED <<hvars, audio_length, chunk_paths, chunk_files,
                   generated, notified>>
    /\ UNCHANGED <<transformed, uvars>>

\* db_episode = await crud.create_episode(db, episode_data); await db.commit()
\* create_episode raises ValueError for a missing field; the commit raises
\* when the database refuses the row or cannot be reached.
Persist(faults) ==
    /\ ppc = "persist"
    /\ \E o \in Outcomes(faults, {"create", "commit"}) :
         IF o # "ok"
         THEN /\ Raise(o)
              /\ UNCHANGED <<store, committed>>
         ELSE IF UniqueViolation(store, EpisodeKey)
         THEN /\ Raise("unique")
              /\ UNCHANGED <<store, committed>>
         ELSE /\ store' = [store EXCEPT ![EpisodeKey] = @ + 1]
              /\ committed' = TRUE
              /\ ppc' = "notify"
              /\ UNCHANGED <<downloaded_file, result>>
    /\ UNCHANGED <<hvars, audio_length, chunk_paths, chunk_files,
                   generated, notified>>
    /\ UNCHANGED <<transformed, uvars>>

\* Mutant of Notify: the email function is invoked a second time.
NotifyTwice(faults) ==
    /\ ppc = "notify"
    /\ \E inLambda \in BOOLEAN :
         IF ~inLambda
         THEN /\ ppc' = "cleanup"
              /\ UNCHANGED <<downloaded_file, result, notified>>
         ELSE \E o \in Outcomes(faults, {"notify_client", "notify_invoke"}) :
                IF o = "notify_client"
                THEN /\ Raise(o)
                     /\ UNCHANGED notified
                ELSE /\ notified' = IF o = "ok" THEN notified + 2 ELSE notified
                     /\ ppc' = "cleanup"
                     /\ UNCHANGED <<downloaded_file, result>>
    /\ UNCHANGED <<store, hvars, audio_length, chunk_paths, chunk_files,
                   generated, committed>>
    /\ UNCHANGED <<transformed, uvars>>

\* await trigger_email_notification(...): returns at once when
\* AWS_LAMBDA_FUNCTION_NAME is not set (inLambda); otherwise boto3.client(...)
\* is called before the try and lambda_client.invoke inside it.
Notify(faults) ==
    /\ ppc = "notify"
    /\ \E inLambda \in BOOLEAN :
         IF ~inLambda
         THEN /\ ppc' = "cleanup"
              /\ UNCHANGED <<downloaded_file, result, notified>>
         ELSE \E o \in Outcomes(faults, {"notify_client", "notify_invoke"}) :
                IF o = "notify_client"
                THEN /\ Raise(o)
                     /\ UNCHANGED notified
                ELSE /\ notified' = IF o = "ok" THEN notified + 1 ELSE notified
                     /\ ppc' = "cleanup"
                     /\ UNCHANGED <<downloaded_file, result>>
    /\ UNCHANGED <<store, hvars, audio_length, chunk_paths, chunk_files,
                   generated, committed>>
    /\ UNCHANGED <<transformed, uvars>>

\* if chunk_paths: for path in chunk_paths: os.unlink(path); then the
\* success result is returned and the with-block's finally unlinks the
\* downloaded file.  An unlink that raises leaves that chunk and the later
\* ones.
Finish(faults) ==
    /\ ppc = "cleanup"
    /\ \E o \in Outcomes(faults, IF chunk_paths > 0 THEN {"cleanup"} ELSE {}) :
         IF o = "ok"
         THEN /\ chunk_files' = 0
              /\ downloaded_file' = FALSE
              /\ result' = [status |-> "success",
                            podcast_id |-> podcasts[pidx],
                            title |-> unprocessed[eidx].title]
              /\ ppc' = "returned"
         ELSE /\ \E left \in 1..chunk_files : chunk_files' = left
              /\ Raise(o)
    /\ UNCHANGED <<store, hvars, audio_length, chunk_paths, generated,
                   committed, notified>>
    /\ UNCHANGED <<transformed, uvars>>

(* --------------- utils/downloader.py: download_audio ------------------ *)

\* The URLs tried: a full one, one without a scheme, one without a host,
\* the empty string and None.
Urls == {"https://host/a.mp3", "host/a.mp3", "https:///a.mp3", "", "None"}

\* parsed = urlparse(url): a scheme needs "name:" in front, a host needs
\* "//host" after it; urlparse(None) has both empty.
urlparse(u) ==
    IF u = "https://host/a.mp3" THEN [scheme |-> "https", netloc |-> "host"]
    ELSE IF u = "https:///a.mp3" THEN [scheme |-> "https", netloc |-> ""]
    ELSE [scheme |-> "", netloc |-> ""]

\* Mutant of InvalidUrl: only the scheme is looked at.
InvalidUrlSchemeOnly(parsed) == parsed.scheme = ""

\* not parsed.scheme or not parsed.netloc
InvalidUrl(parsed) == parsed.scheme = "" \/ parsed.netloc = ""

\* int(response.headers.get('content-length', 0)), in bytes: no header, a
\* body of exactly the limit, one byte more.
ContentLengths ==
    {0, max_file_size_mb * 1024 * 1024, max_file_size_mb * 1024 * 1024 + 1}

\* Mutant of SizeExceeds: a body of exactly the limit is refused too.
SizeReaches(total, max_size) == total >= max_size * 1024 * 1024

\* size_mb = total_size / (1024 * 1024); size_mb > max_size
SizeExceeds(total, max_size) == total > max_size * 1024 * 1024

\* len(chunk) of a chunk iter_content yields: a byte, or a full chunk where
\* the caller's constraints set chunk_size to the size limit.  The body is
\* what the server sends, whatever content-length it announced.
ChunkLengths == {1, max_file_size_mb * 1024 * 1024}

\* time.time() - start_time when a chunk arrives.
Times == {1, max_download_seconds, max_download_seconds + 1}

\* Mutant of TimedOut: the limit taken in minutes.
TimedOutMinutes(elapsed, max_time) == elapsed > max_time * 60

\* time.time() - start_time > max_time
TimedOut(elapsed, max_time) == elapsed > max_time

\* The calls of download_audio that may fail: requests.head, int() of the
\* header, the probing requests.get, NamedTemporaryFile, the downloading
\* requests.get, raise_for_status, temp_file.write, iter_content.
DownloadFaults ==
    { "head", "bad_length", "probe_get", "tempfile", "get", "http_status",
      "write", "iter" }

\* Mutant of AfterCleanup: the partial file is left where it is.
NoCleanup(path, files) == files

\* if temp_path and os.path.exists(temp_path): os.unlink(temp_path)
AfterCleanup(path, files) == IF path /\ files > 0 THEN files - 1 ELSE files

\* `except DownloadError` and `except Exception`: remove the temp file, then
\* raise the DownloadError (or its subclass).
DownloadFail(type, msg) ==
    /\ temp_files' = AfterCleanup(temp_path, temp_files)
    /\ download_result' = [status |-> "raised", type |-> type, error |-> msg]
    /\ dpc' = "raised"

\* download_audio(url, constraints): temp_path = None, start_time = time.time()
CallDownload ==
    /\ dpc \in {"idle", "returned", "raised"}
    /\ \E u \in Urls : url' = u
    /\ dpc' = "validate"
    /\ now' = 0
    /\ total_size' = 0
    /\ response_method' = "none"
    /\ requests_made' = <<>>
    /\ temp_path' = FALSE
    /\ temp_files' = 0
    /\ received' = 0
    /\ written' = <<>>
    /\ downloaded' = 0
    /\ download_result' = None
    /\ UNCHANGED <<store, hvars, pvars, cvars, tvars, avars>>

\* Validate URL
ValidateUrl ==
    /\ dpc = "validate"
    /\ IF InvalidUrl(urlparse(url))
       THEN DownloadFail("DownloadError", "Invalid URL")
       ELSE /\ dpc' = "head"
            /\ UNCHANGED <<temp_files, download_result>>
    /\ UNCHANGED <<url, now, total_size, response_method, requests_made,
                   temp_path, received, written>>
    /\ UNCHANGED <<downloaded, store, hvars, pvars, cvars, tvars, avars>>

\* response = requests.head(url); total_size = int(content-length or 0)
HeadRequest(faults) ==
    /\ dpc = "head"
    /\ requests_made' = Append(requests_made, "HEAD")
    /\ \E o \in Outcomes(faults, {"head", "bad_length"}) :
         IF o = "ok"
         THEN /\ \E size \in ContentLengths :
                   /\ total_size' = size
                   /\ dpc' = IF size = 0 THEN "probe" ELSE "size"
              /\ response_method' = "HEAD"
              /\ UNCHANGED <<temp_files, download_result>>
         ELSE /\ DownloadFail("DownloadError",
                              IF o = "head" THEN "Failed to check file size"
                              ELSE "Unexpected error")
              /\ UNCHANGED <<total_size, response_method>>
    /\ UNCHANGED <<url, now, temp_path, received, written>>
    /\ UNCHANGED <<downloaded, store, hvars, pvars, cvars, tvars, avars>>

\* if total_size == 0: response = requests.get(url, stream=True); total_size
\* from its headers
ProbeGet(faults) ==
    /\ dpc = "probe"
    /\ requests_made' = Append(requests_made, "GET")
    /\ \E o \in Outcomes(faults, {"probe_get", "bad_length"}) :
         IF o = "ok"
         THEN /\ \E size \in ContentLengths : total_size' = size
              /\ response_method' = "GET"
              /\ dpc' = "size"
              /\ UNCHANGED <<temp_files, download_result>>
         ELSE /\ DownloadFail("DownloadError",
                              IF o = "probe_get" THEN "Failed to check file size"
                              ELSE "Unexpected error")
              /\ UNCHANGED <<total_size, response_method>>
    /\ UNCHANGED <<url, now, temp_path, received, written>>
    /\ UNCHANGED <<downloaded, store, hvars, pvars, cvars, tvars, avars>>

\* if size_mb > max_size: raise FileSizeError
CheckSize ==
    /\ dpc = "size"
    /\ IF SizeExceeds(total_size, max_file_size_mb)
       THEN DownloadFail("FileSizeError", "exceeds limit")
       ELSE /\ dpc' = "create"
            /\ UNCHANGED <<temp_files, download_result>>
    /\ UNCHANGED <<url, now, total_size, response_method, requests_made,
                   temp_path, received, written>>
    /\ UNCHANGED <<downloaded, store, hvars, pvars, cvars, tvars, avars>>

\* temp_file = tempfile.NamedTemporaryFile(delete=False, dir=temp_dir);
\* temp_path = temp_file.name
CreateTempFile(faults) ==
    /\ dpc = "create"
    /\ \E o \in Outcomes(faults, {"tempfile"}) :
         IF o = "ok"
         THEN /\ temp_path' = TRUE
              /\ temp_files' = temp_files + 1
              /\ dpc' = "get"
              /\ UNCHANGED download_result
         ELSE /\ DownloadFail("DownloadError", "Failed to create temporary file")
              /\ UNCHANGED temp_path
    /\ UNCHANGED <<url, now, total_size, response_method, requests_made,
                   received, written>>
    /\ UNCHANGED <<downloaded, store, hvars, pvars, cvars, tvars, avars>>

\* if response.request.method != 'GET': response = requests.get(...);
\* response.raise_for_status()
Get(faults) ==
    /\ dpc = "get"
    /\ LET fresh == response_method # "GET"
       IN  /\ requests_made' = IF fresh THEN Append(requests_made, "GET")
                               ELSE requests_made
           /\ \E o \in Outcomes(faults, (IF fresh THEN {"get"} ELSE {})
                                          \cup {"http_status"}) :
                IF o = "ok"
                THEN /\ response_method' = "GET"
                     /\ dpc' = "stream"
                     /\ UNCHANGED <<temp_files, download_result>>
                ELSE /\ DownloadFail("DownloadError", "Download failed")
                     /\ UNCHANGED response_method
    /\ UNCHANGED <<url, now, total_size, temp_path, received, written>>
    /\ UNCHANGED <<downloaded, store, hvars, pvars, cvars, tvars, avars>>

\* for chunk in response.iter_content(...): the next chunk arrives at
\* elapsed time t; the time check, then temp_file.write(chunk).
ReceiveChunk(faults) ==
    /\ dpc = "stream"
    /\ received < MaxChunks
    /\ received' = received + 1
    /\ \E t \in Times :
         /\ t >= now
         /\ now' = t
         /\ \E o \in Outcomes(faults, {"write"}) :
              IF TimedOut(t, max_download_seconds)
              THEN /\ DownloadFail("DownloadTimeoutError", "exceeded time limit")
                   /\ UNCHANGED <<written, downloaded>>
              ELSE IF o = "ok"
              THEN /\ written' = Append(written, t)
                   /\ \E size \in ChunkLengths : downloaded' = downloaded + size
                   /\ UNCHANGED <<dpc, temp_files, download_result>>
              ELSE /\ DownloadFail("DownloadError", "Unexpected error")
                   /\ UNCHANGED <<written, downloaded>>
    /\ UNCHANGED <<url, total_size, response_method, requests_made, temp_path>>
    /\ UNCHANGED <<store, hvars, pvars, cvars, tvars, avars>>

\* iter_content is exhausted: the file is closed and temp_path returned; or
\* iter_content raises a RequestException.
EndOfStream(faults) ==
    /\ dpc = "stream"
    /\ \E o \in Outcomes(faults, {"iter"}) :
         IF o = "ok"
         THEN /\ dpc' = "returned"
              /\ download_result' = [status |-> "returned", path |-> temp_path]
              /\ UNCHANGED temp_files
         ELSE DownloadFail("DownloadError", "Download failed")
    /\ UNCHANGED <<url, now, total_size, response_method, requests_made,
                   temp_path, received, written>>
    /\ UNCHANGED <<downloaded, store, hvars, pvars, cvars, tvars, avars>>

(* ------------- utils/audio_transformer.py: chunk_audio ---------------- *)

\* len(audio) in milliseconds: whole minutes, and a millisecond more.
Durations ==
    { k * 60 * 1000 + r : k \in 0..MaxAudioMinutes, r \in {0, 1} }

\* chunk_minutes as passed: 0 makes range() raise.
SegmentMinutes == 0..MaxSegmentMinutes

\* chunk_duration_ms = chunk_minutes * 60 * 1000
ChunkDurationMs(chunk) == chunk * 60 * 1000

\* Mutant of SegmentEnd: the end is not clipped to the audio's length.
SegmentEndUnclipped(start, duration, total) == start + duration

\* end_ms = min(start_ms + chunk_duration_ms, total_duration_ms)
SegmentEnd(start, duration, total) == Min(start + duration, total)

\* `except Exception`: raise AudioTransformationError; the temp files the
\* call made so far are not touched.
ChunkFail(msg) ==
    /\ chunk_result' = [status |-> "raised",
                        type |-> "AudioTransformationError", error |-> msg]
    /\ cpc' = "raised"

\* chunk_audio(audio_path, chunk_minutes)
CallChunk ==
    /\ cpc \in {"idle", "returned", "raised"}
    /\ \E m \in SegmentMinutes : segment_minutes' = m
    /\ cpc' = "load"
    /\ total_duration_ms' = 0
    /\ start_ms' = 0
    /\ segments' = <<>>
    /\ segment_files' = 0
    /\ chunk_result' = None
    /\ UNCHANGED <<store, hvars, pvars, dvars, tvars, avars>>

\* audio = AudioSegment.from_file(audio_path); total_duration_ms = len(audio);
\* range(0, total_duration_ms, chunk_duration_ms) raises ValueError for a
\* step of 0.
LoadAudio(faults) ==
    /\ cpc = "load"
    /\ \E o \in Outcomes(faults, {"load"}) :
         IF o = "ok"
         THEN /\ \E l \in Durations : total_duration_ms' = l
              /\ IF ChunkDurationMs(segment_minutes) = 0
                 THEN ChunkFail("range() arg 3 must not be zero")
                 ELSE /\ cpc' = "loop"
                      /\ UNCHANGED chunk_result
         ELSE /\ ChunkFail(o)
              /\ UNCHANGED total_duration_ms
    /\ UNCHANGED <<segment_minutes, start_ms, segments, segment_files>>
    /\ UNCHANGED <<store, hvars, pvars, dvars, tvars, avars>>

\* One pass of the loop: NamedTemporaryFile(delete=False) makes the chunk's
\* file, chunk.export writes it, the path is appended.
ExportSegment(faults) ==
    /\ cpc = "loop"
    /\ start_ms < total_duration_ms
    /\ \E o \in Outcomes(faults, {"tempfile", "export"}) :
         IF o = "ok"
         THEN /\ segment_files' = segment_files + 1
              /\ segments' =
                   Append(segments,
                          <<start_ms,
                            SegmentEnd(start_ms, ChunkDurationMs(segment_minutes),
                                       total_duration_ms)>>)
              /\ start_ms' = start_ms + ChunkDurationMs(segment_minutes)
              /\ UNCHANGED <<cpc, chunk_result>>
         ELSE /\ segment_files' = IF o = "export" THEN segment_files + 1
                                  ELSE segment_files
              /\ ChunkFail(o)
              /\ UNCHANGED <<segments, start_ms>>
    /\ UNCHANGED <<segment_minutes, total_duration_ms>>
    /\ UNCHANGED <<store, hvars, pvars, dvars, tvars, avars>>

\* The range is exhausted: return chunk_paths
ReturnChunks ==
    /\ cpc = "loop"
    /\ ~(start_ms < total_duration_ms)
    /\ cpc' = "returned"
    /\ chunk_result' = [status |-> "returned", chunk_paths |-> Len(segments)]
    /\ UNCHANGED <<segment_minutes, total_duration_ms, start_ms, segments,
                   segment_files>>
    /\ UNCHANGED <<store, hvars, pvars, dvars, tvars, avars>>

\* The calls of chunk_audio that may fail.
ChunkFaults == {"load", "tempfile", "export"}

(* -------------- utils/temp_file_context.py: transform_audio_context --- *)

\* Audio lengths in minutes, from just under one chunk to just over two.
ContextLengths == (chunk_minutes - 1)..MaxContextMinutes

\* The paths of the chunks chunk_audio exports for audio of this length.
ChunkFileNames(length) ==
    [i \in 1..ChunkCount(length, chunk_minutes) |-> Str("chunk" \o ToString(i))]

\* What transform_audio(path, chunk_minutes=...) returns for a temp file
\* named tmp: the path alone without chunk_minutes, else the tuple
\* (tmp_file.name, []) or (tmp_file.name, chunk_paths).
transform_audio(tmp, length, minutes_arg) ==
    IF minutes_arg = 0
    THEN Str(tmp)
    ELSE IF length <= minutes_arg
    THEN Tuple(<<Str(tmp), List(<<>>)>>)
    ELSE Tuple(<<Str(tmp), List(ChunkFileNames(length))>>)

\* The files a value names, at any depth.
RECURSIVE FilesOfItems(_)
FilesOfItems(items) ==
    IF items = <<>>
    THEN {}
    ELSE LET e == Head(items) IN
         (IF e.kind = "str" THEN {e.name} ELSE FilesOfItems(e.items))
             \cup FilesOfItems(Tail(items))

FilesOf(value) == FilesOfItems(<<value>>)

\* `for path in chunk_paths: if path and os.path.exists(path):
\* os.unlink(path)`: a path is unlinked, an empty list is falsy and skipped,
\* and os.path.exists of a non-empty list or tuple raises TypeError.
RECURSIVE UnlinkEach(_, _)
UnlinkEach(items, files) ==
    IF items = <<>>
    THEN [disk |-> files, error |-> "none"]
    ELSE LET path == Head(items) IN
         IF path.kind = "str"
         THEN UnlinkEach(Tail(items), files \ {path.name})
         ELSE IF path.items = <<>>
         THEN UnlinkEach(Tail(items), files)
         ELSE [disk |-> files, error |-> "TypeError"]

\* The clean-up both after the yield and in the except clause: unlink
\* full_audio_path if it is bound and exists, then the loop over chunk_paths
\* if chunk_minutes is set and the local is bound.
CleanUp(files) ==
    LET rest == IF full_audio_path.kind = "str"
                THEN files \ {full_audio_path.name}
                ELSE files
    IN  IF chunk_minutes_arg # 0 /\ chunk_paths_local.kind # "unbound"
        THEN UnlinkEach(chunk_paths_local.items, rest)
        ELSE [disk |-> rest, error |-> "none"]

\* The calls inside the context that may fail, and the with-block itself.
ContextFaults == {"load", "block"}

\* An exception inside the try: the except clause takes it.
ContextRaise(exc) ==
    /\ tpc' = "except"
    /\ pending' = exc

\* with transform_audio_context(audio_path, chunk_minutes) as ...
EnterContext ==
    /\ tpc \in {"idle", "exited", "raised"}
    /\ \E m \in {0, chunk_minutes} : chunk_minutes_arg' = m
    /\ tpc' = "transform"
    /\ full_audio_path' = Unbound
    /\ chunk_paths_local' = Unbound
    /\ disk' = {}
    /\ yielded' = Unbound
    /\ measured_length' = 0
    /\ block_end' = "none"
    /\ pending' = "none"
    /\ context_result' = None
    /\ UNCHANGED <<store, hvars, pvars, dvars, cvars, avars>>

\* full_audio_path = transform_audio(audio_path), and the yield of the
\* non-chunked case.
TransformFull(faults) ==
    /\ tpc = "transform"
    /\ \E o \in Outcomes(faults, {"load"}) :
         IF o = "ok"
         THEN /\ full_audio_path' = transform_audio("full", 0, 0)
              /\ disk' = disk \cup FilesOf(full_audio_path')
              /\ IF chunk_minutes_arg = 0
                 THEN /\ yielded' = full_audio_path'
                      /\ tpc' = "block"
                 ELSE /\ tpc' = "measure"
                      /\ UNCHANGED yielded
              /\ UNCHANGED pending
         ELSE /\ ContextRaise("AudioTransformationError")
              /\ UNCHANGED <<full_audio_path, disk, yielded>>
    /\ UNCHANGED <<chunk_minutes_arg, chunk_paths_local, block_end, context_result>>
    /\ UNCHANGED measured_length
    /\ UNCHANGED <<store, hvars, pvars, dvars, cvars, avars>>

\* audio_length = get_audio_length(full_audio_path); a short episode yields
\* (full_audio_path, []) and leaves chunk_paths unbound, a longer one has
\* chunk_paths = transform_audio(full_audio_path, chunk_minutes=chunk_minutes)
\* yielded as (full_audio_path, chunk_paths).
MeasureAndChunk(faults) ==
    /\ tpc = "measure"
    /\ \E length \in ContextLengths, o \in Outcomes(faults, {"load"}) :
         IF o # "ok"
         THEN /\ ContextRaise("AudioTransformationError")
              /\ UNCHANGED <<chunk_paths_local, disk, yielded, measured_length>>
         ELSE IF length <= chunk_minutes_arg
         THEN /\ measured_length' = length
              /\ yielded' = Tuple(<<full_audio_path, List(<<>>)>>)
              /\ tpc' = "block"
              /\ UNCHANGED <<chunk_paths_local, disk, pending>>
         ELSE /\ measured_length' = length
              /\ chunk_paths_local' =
                     transform_audio("copy", length, chunk_minutes_arg)
              /\ disk' = disk \cup FilesOf(chunk_paths_local')
              /\ yielded' = Tuple(<<full_audio_path, chunk_paths_local'>>)
              /\ tpc' = "block"
              /\ UNCHANGED pending
    /\ UNCHANGED <<chunk_minutes_arg, full_audio_path, block_end, context_result>>
    /\ UNCHANGED <<store, hvars, pvars, dvars, cvars, avars>>

\* The with-block runs: it ends normally, and the generator resumes after the
\* yield, or it raises, and the exception is thrown into the generator at
\* the yield, inside the try.
Block(faults) ==
    /\ tpc = "block"
    /\ \E o \in Outcomes(faults, {"block"}) :
         IF o = "ok"
         THEN /\ block_end' = "normal"
              /\ tpc' = "cleanup"
              /\ UNCHANGED pending
         ELSE /\ block_end' = "exception"
              /\ ContextRaise("BlockError")
    /\ UNCHANGED <<chunk_minutes_arg, full_audio_path, chunk_paths_local, disk,
                   yielded, context_result>>
    /\ UNCHANGED measured_length
    /\ UNCHANGED <<store, hvars, pvars, dvars, cvars, avars>>

\* The clean-up after the yield; it is inside the try, so what it raises
\* goes to the except clause.
CleanUpAfterYield ==
    /\ tpc = "cleanup"
    /\ LET done == CleanUp(disk) IN
         /\ disk' = done.disk
         /\ IF done.error = "none"
            THEN /\ tpc' = "exited"
                 /\ context_result' = [status |-> "exited", kind |-> "normal"]
                 /\ UNCHANGED pending
            ELSE /\ ContextRaise(done.error)
                 /\ UNCHANGED context_result
    /\ UNCHANGED <<chunk_minutes_arg, full_audio_path, chunk_paths_local,
                   yielded, block_end>>
    /\ UNCHANGED measured_length
    /\ UNCHANGED <<store, hvars, pvars, dvars, cvars, avars>>

\* except Exception: the same clean-up, then `raise`; an exception of the
\* clean-up itself leaves the clause in place of the one it handled.
CleanUpOnError ==
    /\ tpc = "except"
    /\ LET done == CleanUp(disk) IN
         /\ disk' = done.disk
         /\ context_result' =
                [status |-> "raised",
                 kind |-> IF done.error = "none" THEN pending ELSE done.error]
    /\ tpc' = "raised"
    /\ UNCHANGED <<chunk_minutes_arg, full_audio_path, chunk_paths_local,
                   yielded, block_end, pending>>
    /\ UNCHANGED measured_length
    /\ UNCHANGED <<store, hvars, pvars, dvars, cvars, avars>>

(* ------------------ core/analyzer.py: process_podcast ------------------ *)

\* The parts of the final input: the prompt, the analysis text of a piece of
\* audio, the uploaded full audio; and what a task holds before it returns
\* and after it raised.
Prompt == [part |-> "prompt", audio |-> "none"]
AnalysisOf(path) == [part |-> "analysis", audio |-> path]
AudioFile(path) == [part |-> "audio", audio |-> path]
NoResult == [part |-> "none", audio |-> "none"]
Raised == [part |-> "exception", audio |-> "none"]

\* chunk_paths as the caller passes them: none, or the chunks in the order
\* chunk_audio cut them.
ChunkPathLists ==
    {[i \in 1..n |-> "chunk" \o ToString(i)] : n \in 0..MaxAnalysisChunks}

\* Mutant of gather: the results in the order the tasks completed.
gather_as_completed(results, order) ==
    [k \in 1..Len(order) |-> results[order[k]]]

\* asyncio.gather(*tasks): the results in the order of the awaitables
\* passed in, whatever the order they completed in.
gather(results, order) == [i \in 1..Len(results) |-> results[i]]

\* Mutant of AllSucceeded: gather with return_exceptions, which returns once
\* every task has finished.
AllFinished(ts) == \A i \in 1..Len(ts) : ts[i] \in {"done", "failed"}

\* gather returns once every awaitable has returned.
AllSucceeded(ts) == \A i \in 1..Len(ts) : ts[i] = "done"

\* gather raises the first exception of an awaitable to its awaiter.
AnyFailed(ts) == \E i \in 1..Len(ts) : ts[i] = "failed"

\* The calls of process_podcast that may fail.
AnalyzeFaults == {"input", "upload", "generate", "validate"}

\* `except Exception`: an AnalyzerError is re-raised, anything else is
\* wrapped in one.
AnalyzeFail(msg) ==
    /\ apc' = "raised"
    /\ podcast_result' = [status |-> "raised", kind |-> "AnalyzerError",
                          error |-> msg]

\* analyzer.process_podcast(audio_path, ..., chunk_paths=chunk_paths)
CallProcessPodcast ==
    /\ apc \in {"idle", "returned", "raised"}
    /\ \E paths \in ChunkPathLists : chunk_paths_arg' = paths
    /\ apc' = "validate"
    /\ tasks' = <<>>
    /\ task_results' = <<>>
    /\ chunk_requests' = <<>>
    /\ completion' = <<>>
    /\ analyses' = <<>>
    /\ content_parts' = <<>>
    /\ final_calls' = 0
    /\ podcast_result' = None
    /\ UNCHANGED <<store, hvars, pvars, dvars, cvars, tvars>>

\* The required parameters and the audio file are checked; with chunks,
\* analyze_chunks builds one analyze_chunk coroutine per path and hands them
\* to gather.
ValidateInputs(faults) ==
    /\ apc = "validate"
    /\ \E o \in Outcomes(faults, {"input"}) :
         IF o # "ok"
         THEN /\ AnalyzeFail("Missing required parameters")
              /\ UNCHANGED <<tasks, task_results, chunk_requests>>
         ELSE IF Len(chunk_paths_arg) > 0
         THEN /\ apc' = "gather"
              /\ tasks' = [i \in 1..Len(chunk_paths_arg) |-> "created"]
              /\ task_results' = [i \in 1..Len(chunk_paths_arg) |-> NoResult]
              /\ chunk_requests' = [i \in 1..Len(chunk_paths_arg) |-> 0]
              /\ UNCHANGED podcast_result
         ELSE /\ apc' = "single"
              /\ UNCHANGED <<tasks, task_results, chunk_requests,
                             podcast_result>>
    /\ UNCHANGED <<chunk_paths_arg, completion, analyses, content_parts,
                   final_calls>>
    /\ UNCHANGED <<store, hvars, pvars, dvars, cvars, tvars>>

\* Without chunks: analyses = [await self.analyze_audio(audio_path=...)].
AnalyzeFullAudio(faults) ==
    /\ apc = "single"
    /\ \E o \in Outcomes(faults, {"upload", "generate"}) :
         IF o = "ok"
         THEN /\ analyses' = <<AnalysisOf("full")>>
              /\ apc' = "upload"
              /\ UNCHANGED podcast_result
         ELSE /\ AnalyzeFail("Analysis failed")
              /\ UNCHANGED analyses
    /\ UNCHANGED <<chunk_paths_arg, tasks, task_results, chunk_requests,
                   completion, content_parts, final_calls>>
    /\ UNCHANGED <<store, hvars, pvars, dvars, cvars, tvars>>

\* A task that gather started and did not cancel runs on, also after gather
\* has raised for another task.
TasksRunning == apc \in {"gather", "raised"}

\* analyze_chunk(i, chunk_path) up to its request: analyze_audio lists the
\* stored files, uploads the chunk and calls
\* preanalysis_model.generate_content once.
SendChunkRequest(faults) ==
    /\ TasksRunning
    /\ \E i \in 1..Len(tasks), o \in Outcomes(faults, {"upload"}) :
         /\ tasks[i] = "created"
         /\ IF o = "ok"
            THEN /\ tasks' = [tasks EXCEPT ![i] = "requested"]
                 /\ chunk_requests' = [chunk_requests EXCEPT ![i] = @ + 1]
                 /\ UNCHANGED task_results
            ELSE /\ tasks' = [tasks EXCEPT ![i] = "failed"]
                 /\ task_results' = [task_results EXCEPT ![i] = Raised]
                 /\ UNCHANGED chunk_requests
    /\ UNCHANGED <<apc, chunk_paths_arg, completion, analyses, content_parts,
                   final_calls, podcast_result>>
    /\ UNCHANGED <<store, hvars, pvars, dvars, cvars, tvars>>

\* The request of a task answers, in any order among the tasks: the task
\* returns preanalysis_response.text, or analyze_audio raises AnalyzerError.
ChunkRequestAnswers(faults) ==
    /\ TasksRunning
    /\ \E i \in 1..Len(tasks), o \in Outcomes(faults, {"generate"}) :
         /\ tasks[i] = "requested"
         /\ IF o = "ok"
            THEN /\ tasks' = [tasks EXCEPT ![i] = "done"]
                 /\ task_results' =
                        [task_results EXCEPT ![i] = AnalysisOf(chunk_paths_arg[i])]
                 /\ completion' = Append(completion, i)
            ELSE /\ tasks' = [tasks EXCEPT ![i] = "failed"]
                 /\ task_results' = [task_results EXCEPT ![i] = Raised]
                 /\ UNCHANGED completion
    /\ UNCHANGED <<apc, chunk_paths_arg, chunk_requests, analyses,
                   content_parts, final_calls, podcast_result>>
    /\ UNCHANGED <<store, hvars, pvars, dvars, cvars, tvars>>

\* chunk_analyses = await asyncio.gather(*tasks); return chunk_analyses
GatherReturns ==
    /\ apc = "gather"
    /\ AllSucceeded(tasks)
    /\ analyses' = gather(task_results, completion)
    /\ apc' = "upload"
    /\ UNCHANGED <<chunk_paths_arg, tasks, task_results, chunk_requests,
                   completion, content_parts, final_calls, podcast_result>>
    /\ UNCHANGED <<store, hvars, pvars, dvars, cvars, tvars>>

\* A task raised: gather raises its AnalyzerError into process_podcast.
GatherRaises ==
    /\ apc = "gather"
    /\ AnyFailed(tasks)
    /\ AnalyzeFail("Analysis failed")
    /\ UNCHANGED <<chunk_paths_arg, tasks, task_results, chunk_requests,
                   completion, analyses, content_parts, final_calls>>
    /\ UNCHANGED <<store, hvars, pvars, dvars, cvars, tvars>>

\* content_parts = [prompt]; content_parts.extend(analyses);
\* audio_file = upload_file(audio_path); content_parts.append(audio_file)
UploadFullAudio(faults) ==
    /\ apc = "upload"
    /\ \E o \in Outcomes(faults, {"upload"}) :
         IF o = "ok"
         THEN /\ content_parts' = <<Prompt>> \o analyses \o <<AudioFile("full")>>
              /\ apc' = "write"
              /\ UNCHANGED podcast_result
         ELSE /\ content_parts' = <<Prompt>> \o analyses
              /\ AnalyzeFail("Failed to process podcast")
    /\ UNCHANGED <<chunk_paths_arg, tasks, task_results, chunk_requests,
                   completion, analyses, final_calls>>
    /\ UNCHANGED <<store, hvars, pvars, dvars, cvars, tvars>>

\* writing_model.generate_content(content_parts), validate_analysis and
\* format_newsletter.
GenerateNewsletter(faults) ==
    /\ apc = "write"
    /\ final_calls' = final_calls + 1
    /\ \E o \in Outcomes(faults, {"generate", "validate"}) :
         IF o = "ok"
         THEN /\ apc' = "returned"
              /\ podcast_result' = [status |-> "returned", kind |-> "newsletter",
                                    error |-> "none"]
         ELSE AnalyzeFail("Failed to process podcast")
    /\ UNCHANGED <<chunk_paths_arg, tasks, task_results, chunk_requests,
                   completion, analyses, content_parts>>
    /\ UNCHANGED <<store, hvars, pvars, dvars, cvars, tvars>>

(* ------------------------- overlapping runs --------------------------- *)

\* The faults of the environment with an overlapping run: downloads.
OverlapFaults == {"download"}

\* process_episode has begun and has not yet reached its own insert's commit.
InFlight == ppc \in {"download", "measure", "chunk", "generate", "persist"}

\* A process_episode invocation of an overlapping batch run, for the same
\* podcast and GUID, reaches its create_episode and commit while this one is
\* in flight; the database holds its insert to the same unique constraint.
OtherRunCommits ==
    /\ hpc = "awaiting"
    /\ InFlight
    /\ ~UniqueViolation(store, EpisodeKey)
    /\ store' = [store EXCEPT ![EpisodeKey] = @ + 1]
    /\ UNCHANGED <<hvars, pvars, uvars>>

(* --------------------------- specifications --------------------------- *)

Step(feeds, faults) ==
    \/ Invoke
    \/ LoadPodcasts(faults)
    \/ FetchFeed(feeds, faults)
    \/ Dedupe(faults)
    \/ Tally
    \/ StartEpisode(faults)
    \/ Download(faults)
    \/ Measure(faults)
    \/ Chunk(faults)
    \/ Generate(faults)
    \/ Persist(faults)
    \/ Notify(faults)
    \/ Finish(faults)
    \/ Collect
    \/ NextPodcast
    \/ Summarise

\* The general environment: short feeds of any content, every call may fail.
Next == Step(GeneralFeeds, AllFaults)

Spec == Init /\ [][Next]_vars

\* The batch environment: long feeds, only downloads fail.
NextBatch == Step(BatchFeeds, BatchFaults)

SpecBatch == Init /\ [][NextBatch]_vars

\* download_audio on its own: any URL, any answer of the server, every call
\* may fail.
NextDownload ==
    \/ CallDownload
    \/ ValidateUrl
    \/ HeadRequest(DownloadFaults)
    \/ ProbeGet(DownloadFaults)
    \/ CheckSize
    \/ CreateTempFile(DownloadFaults)
    \/ Get(DownloadFaults)
    \/ ReceiveChunk(DownloadFaults)
    \/ EndOfStream(DownloadFaults)

SpecDownload == Init /\ [][NextDownload]_vars

\* chunk_audio on its own: any audio, any segment size, every call may fail.
NextChunk ==
    \/ CallChunk
    \/ LoadAudio(ChunkFaults)
    \/ ExportSegment(ChunkFaults)
    \/ ReturnChunks

SpecChunk == Init /\ [][NextChunk]_vars

\* transform_audio_context on its own: with and without chunk_minutes, any
\* audio length, every call and the with-block may fail.
NextContext ==
    \/ EnterContext
    \/ TransformFull(ContextFaults)
    \/ MeasureAndChunk(ContextFaults)
    \/ Block(ContextFaults)
    \/ CleanUpAfterYield
    \/ CleanUpOnError

SpecContext == Init /\ [][NextContext]_vars

\* process_podcast on its own: any number of chunks, tasks answering in any
\* order, every call may fail.
NextAnalyze ==
    \/ CallProcessPodcast
    \/ ValidateInputs(AnalyzeFaults)
    \/ AnalyzeFullAudio(AnalyzeFaults)
    \/ SendChunkRequest(AnalyzeFaults)
    \/ ChunkRequestAnswers(AnalyzeFaults)
    \/ GatherReturns
    \/ GatherRaises
    \/ UploadFullAudio(AnalyzeFaults)
    \/ GenerateNewsletter(AnalyzeFaults)

SpecAnalyze == Init /\ [][NextAnalyze]_vars

\* Two overlapping runs: the run above, and the inserts of another run's
\* invocations for the episodes it is processing.
NextOverlap ==
    \/ Step(GeneralFeeds, OverlapFaults)
    \/ OtherRunCommits

SpecOverlap == Init /\ [][NextOverlap]_vars

(* ------------------------------ claims -------------------------------- *)

Returned200 ==
    hpc = "done" /\ response.kind = "returned" /\ response.statusCode = 200

Returned500 ==
    hpc = "done" /\ response.kind = "returned" /\ response.statusCode = 500

\* C1: process_episode never raises: whichever step fails, what it returns
\* is a result for this podcast and episode whose status is exactly
\* 'success' or 'error'.
C1_ProcessEpisodeNeverRaises ==
    ppc = "returned" =>
        /\ result.status \in {"success", "error"}
        /\ result.podcast_id = podcasts[pidx]
        /\ result.title = unprocessed[eidx].title

\* The last step of all, the chunk cleanup, failed and an error result came back.
C1_Witness ==
    ppc = "returned" /\ result.status = "error" /\ result.error = "cleanup"

\* The counters while the handler runs: every failure has its entry, and
\* every unprocessed episode is either still to come or counted once.
C2_Counted ==
    /\ Len(errors) = failed_processes
    /\ hpc \in {"episodes", "awaiting"} =>
         successful_processes + failed_processes + (Len(unprocessed) - eidx + 1)
           = total_new_episodes
    /\ hpc \in {"fetch", "dedupe", "deduped", "summary"} =>
         successful_processes + failed_processes = total_new_episodes
    /\ Returned200 =>
         response.body.successfully_processed + response.body.failed_processes
           = response.body.new_episodes_found

\* What collecting the result of one episode does to the counters.
C2_CollectStep ==
    (hpc = "awaiting" /\ ppc = "returned") =>
        IF result.status = "success"
        THEN /\ successful_processes' = successful_processes + 1
             /\ failed_processes' = failed_processes
             /\ errors' = errors
        ELSE /\ successful_processes' = successful_processes
             /\ failed_processes' = failed_processes + 1
             /\ Len(errors') = Len(errors) + 1
             /\ SubSeq(errors', 1, Len(errors)) = errors
             /\ errors'[Len(errors')].podcast = podcasts[pidx]
             /\ errors'[Len(errors')].episode = unprocessed[eidx].title

\* C2: in every summary returned with statusCode 200,
\* successfully_processed + failed_processes = new_episodes_found: each
\* unprocessed episode is attempted once and counted once, a success as a
\* success, a failure as a failure with an error entry for that episode.
C2_EveryEpisodeCountedOnce == [][C2_Counted' /\ C2_CollectStep]_vars

\* Two unprocessed episodes, only the second failed: one success, one
\* failure, and the entry is the second episode's.
C2_Witness ==
    /\ Returned200
    /\ response.body.new_episodes_found = 2
    /\ response.body.successfully_processed = 1
    /\ response.body.failed_processes = 1
    /\ response.body.errors = <<[podcast |-> "p1", episode |-> 2]>>

\* C3: when fetching the feed or deduplicating fails for one podcast, the
\* handler records exactly one error entry for that podcast, goes on with
\* the next podcast and has not returned anything but the 200 summary.
C3_FeedFailureIsolated ==
    [][ (hpc \in {"fetch", "dedupe"} /\ hpc' \notin {"dedupe", "deduped"}) =>
          /\ Len(errors') = Len(errors) + 1
          /\ errors'[Len(errors')].podcast = podcasts[pidx]
          /\ pidx' = pidx + 1
          /\ hpc' = PodcastLoop(pidx + 1, Len(podcasts))
          /\ response' = None ]_vars

\* C4: lambda_handler never raises and always returns a response:
\* statusCode 200 with the summary exactly when the loop over the podcasts
\* ran to completion, statusCode 500 with the error otherwise; and until it
\* has returned it can always take a step.
C4_HandlerAlwaysResponds ==
    /\ hpc = "done" =>
         /\ response.kind = "returned"
         /\ response.statusCode \in {200, 500}
         /\ response.statusCode = 200 <=> (pidx >= 1 /\ pidx > Len(podcasts))
         /\ response.statusCode = 200 =>
              {"new_episodes_found", "successfully_processed", "failed_processes",
               "total_podcasts_checked", "time_window_minutes"}
                 \subseteq DOMAIN response.body
         /\ response.statusCode = 500 => "error" \in DOMAIN response.body
    /\ hpc \notin {"idle", "done"} => ENABLED Next

\* The podcast list could not be loaded: one 500 response.
C4_Witness == Returned500 /\ response.body.error = "load"

\* C5: the summary's 'errors' list holds the first min(E, 10) of the E errors
\* collected, in the order they occurred (the key is absent when E = 0);
\* 'additional_errors_count' is present only when E > 10 and is E - 10 then;
\* the errors listed plus the additional count are failed_processes.
C5_ErrorListCapped ==
    Returned200 =>
        LET E == Len(errors)
            body == response.body
            shown == IF "errors" \in DOMAIN body THEN body.errors ELSE <<>>
            more == IF "additional_errors_count" \in DOMAIN body
                    THEN body.additional_errors_count ELSE 0
        IN  /\ "errors" \in DOMAIN body <=> E > 0
            /\ Len(shown) = Min(E, ErrorCap)
            /\ \A i \in 1..Len(shown) : shown[i] = errors[i]
            /\ "additional_errors_count" \in DOMAIN body <=> E > ErrorCap
            /\ E > ErrorCap => more = E - ErrorCap
            /\ Len(shown) + more = body.failed_processes

\* A run with more than ten errors, the first and the eleventh different.
C5_Witness ==
    /\ Returned200
    /\ Len(errors) > ErrorCap
    /\ errors[1] # errors[ErrorCap + 1]

\* The episode's publish timestamp parses and its age is at most the window.
InWindow(ep) ==
    ep.publish_date.ok /\ ep.publish_date.age <= minutes * 60

\* The feed's episodes inside the window, and their GUIDs, in feed order.
WindowEpisodes == SelectSeq(rss_episodes, InWindow)

WindowGuids == [i \in 1..Len(WindowEpisodes) |-> WindowEpisodes[i].rss_guid]

Returned(ep) == \E j \in 1..Len(unprocessed) : unprocessed[j] = ep

\* find_unprocessed_episodes raised out of its store lookup.
LookupRaised == Returned500 /\ response.body.error = "MultipleResultsFound"

\* C6: a feed episode inside the window is returned by
\* find_unprocessed_episodes if and only if the store holds no row with the
\* same (podcast id, GUID); a row with the GUID under another podcast is no
\* match.
C6_MatchOnPodcastAndGuid ==
    hpc = "deduped" =>
        \A i \in 1..Len(rss_episodes) :
            InWindow(rss_episodes[i]) =>
                (Returned(rss_episodes[i])
                   <=> store[<<podcasts[pidx], rss_episodes[i].rss_guid>>] = 0)

\* C7: find_unprocessed_episodes never returns an episode older than the
\* window; such an episode is dropped without a store lookup and without an
\* error, every episode inside the window is looked up, and what is returned
\* is a subsequence of the feed in feed order.  When a lookup raises, the
\* lookups made until then are those of the window's episodes, in order.
C7_WindowAndOrder ==
    /\ hpc = "deduped" =>
         /\ \A j \in 1..Len(unprocessed) :
              /\ unprocessed[j].publish_date.ok
              /\ unprocessed[j].publish_date.age <= minutes * 60
              /\ unprocessed[j].title \in 1..Len(rss_episodes)
              /\ unprocessed[j] = rss_episodes[unprocessed[j].title]
         /\ \A j, k \in 1..Len(unprocessed) :
              j < k => unprocessed[j].title < unprocessed[k].title
         /\ lookups = WindowGuids
    /\ LookupRaised =>
         /\ lookups # <<>>
         /\ Len(lookups) <= Len(WindowGuids)
         /\ lookups = SubSeq(WindowGuids, 1, Len(lookups))

\* A feed whose first episode is too old and whose second is fresh and new:
\* only the second was looked up and returned.
C7_Witness ==
    /\ hpc = "deduped"
    /\ Len(rss_episodes) = 2
    /\ rss_episodes[1].publish_date.ok
    /\ rss_episodes[1].publish_date.age > minutes * 60
    /\ unprocessed = <<rss_episodes[2]>>
    /\ Len(lookups) = 1

\* C8: deduplication is idempotent and monotone with persistence: it leaves
\* the store as it is, applied to its own result it returns that result, and
\* no episode it returns has a row for this podcast and its GUID, so an
\* episode that process_episode committed is excluded by every later call.
C8_DedupeIdempotentMonotone ==
    [][ /\ hpc = "dedupe" => store' = store
        /\ hpc' = "deduped" =>
             /\ \A i \in 1..Len(unprocessed') :
                  store'[<<podcasts'[pidx'], unprocessed'[i].rss_guid>>] = 0
             /\ find_unprocessed_episodes(store', podcasts'[pidx'],
                                          unprocessed', minutes')
                  = [unprocessed |-> unprocessed',
                     lookups |-> [i \in 1..Len(unprocessed') |->
                                    unprocessed'[i].rss_guid],
                     raised |-> FALSE] ]_vars

\* A second run: the feed has a fresh episode whose row an earlier
\* process_episode committed for this podcast, and it is not returned.
C8_Witness ==
    /\ hpc = "deduped"
    /\ runs = 2
    /\ \E i \in 1..Len(rss_episodes) :
         /\ InWindow(rss_episodes[i])
         /\ rss_episodes[i].rss_guid = "g2"
         /\ store[<<podcasts[pidx], "g2">>] = 1
         /\ ~Returned(rss_episodes[i])

\* C9: an episode whose publish timestamp cannot be parsed is skipped, not
\* returned and not an exception; the episodes after it are still evaluated:
\* a fresh one with no row for its GUID is returned, and the call raises only
\* out of a store lookup for an episode inside the window.
C9_UnparsableDateSkipped ==
    /\ hpc = "deduped" =>
         /\ \A j \in 1..Len(unprocessed) : unprocessed[j].publish_date.ok
         /\ \A i \in 1..Len(rss_episodes) :
              ( /\ InWindow(rss_episodes[i])
                /\ \A k \in Keys : k[2] = rss_episodes[i].rss_guid => store[k] = 0 )
                => Returned(rss_episodes[i])
    /\ LookupRaised =>
         \E i \in 1..Len(rss_episodes) :
            /\ InWindow(rss_episodes[i])
            /\ rss_episodes[i].rss_guid = lookups[Len(lookups)]

\* The first episode's timestamp is unparsable, the second is fresh and new:
\* exactly the second is returned.
C9_Witness ==
    /\ hpc = "deduped"
    /\ Len(rss_episodes) = 2
    /\ ~rss_episodes[1].publish_date.ok
    /\ unprocessed = <<rss_episodes[2]>>

\* C10: within one process_episode invocation the Episode row is created
\* and committed only after generation returned successfully, and it is the
\* row of this podcast and GUID; when the download or the generation fails,
\* no row is created or committed and the result is 'error' with the
\* failure's message.
C10_PersistOnlyAfterGeneration ==
    [][ /\ store' # store =>
             /\ ppc = "persist"
             /\ generated
             /\ committed'
             /\ store' = [store EXCEPT ![EpisodeKey] = @ + 1]
        /\ committed' => generated'
        /\ (ppc \in {"download", "generate"} /\ ppc' = "returned") =>
             /\ result'.status = "error"
             /\ result'.error = ppc
             /\ store' = store
             /\ ~committed' ]_vars

\* Generation failed: an error result with its message, nothing committed.
C10_Witness ==
    /\ ppc = "returned"
    /\ result.status = "error"
    /\ result.error = "generate"
    /\ ~committed

\* C11: when creating or committing the Episode row fails, a refused
\* duplicate of (podcast id, GUID) included, process_episode returns 'error'
\* with that failure, never 'success', no row is added, and the handler
\* counts the episode as failed.
C11_PersistFailureIsError ==
    [][ /\ (ppc = "persist" /\ ~committed') =>
             /\ ppc' = "returned"
             /\ result'.status = "error"
             /\ result'.error \in {"create", "commit", "unique"}
             /\ store' = store
        /\ (ppc = "persist" /\ UniqueViolation(store, EpisodeKey)) =>
             ~committed'
        /\ (ppc' = "returned" /\ result'.status = "success") => committed'
        /\ (hpc = "awaiting" /\ ppc = "returned" /\ ~committed) =>
             /\ failed_processes' = failed_processes + 1
             /\ successful_processes' = successful_processes ]_vars

\* The database refused a second row for the same podcast and GUID.
C11_Witness ==
    /\ ppc = "returned"
    /\ result.status = "error"
    /\ result.error = "unique"
    /\ store[EpisodeKey] = 1
    /\ ~committed

\* C12: a failure anywhere in the notification step is only logged: the
\* step after the commit always goes on to the cleanup and to the 'success'
\* result, it never ends process_episode.
C12_NotificationFailureOnlyLogged ==
    [][ ppc = "notify" => (ppc' = "cleanup" /\ result' = result) ]_vars

\* C13: after process_episode has returned, with 'success' or 'error', none
\* of the temp files it created is left: not the downloaded file, not a
\* chunk file.
C13_NoTempFilesLeft ==
    ppc = "returned" => (~downloaded_file /\ chunk_files = 0)

\* C19: audio of at most the segment size is never chunked: chunk_audio is
\* called only for a length strictly greater than chunk_minutes and for every
\* such length; otherwise the chunk list is empty, no chunk file exists and
\* generation runs on the downloaded file alone.
C19_ShortAudioNotChunked ==
    [][ /\ ppc' = "chunk" => (ppc = "measure" /\ audio_length' > chunk_minutes)
        /\ (ppc = "measure" /\ ppc' # "returned") =>
             IF audio_length' <= chunk_minutes
             THEN /\ ppc' = "generate"
                  /\ chunk_paths' = 0
                  /\ chunk_files' = 0
                  /\ downloaded_file'
             ELSE ppc' = "chunk"
        /\ (ppc' \in {"generate", "persist", "notify", "cleanup"}
              /\ audio_length' <= chunk_minutes) =>
             (chunk_paths' = 0 /\ chunk_files' = 0) ]_vars

\* Audio of exactly the segment size reached generation without chunks.
C19_Witness ==
    /\ ppc = "generate"
    /\ audio_length = chunk_minutes
    /\ chunk_paths = 0
    /\ downloaded_file

DownloadRaised(type) ==
    dpc = "raised" /\ download_result.type = type

LimitBytes == max_file_size_mb * 1024 * 1024

\* C14: when the probed size is over the limit, download_audio fails with
\* FileSizeError, and only then; no temp file was created and no byte
\* written; when HEAD reported the size no GET was issued, otherwise the one
\* probing GET.
C14_OversizeFailsBeforeTempFile ==
    /\ (dpc \in {"create", "get", "stream", "returned", "raised"}
          /\ total_size > LimitBytes) =>
         DownloadRaised("FileSizeError")
    /\ DownloadRaised("FileSizeError") =>
         /\ total_size > LimitBytes
         /\ ~temp_path
         /\ temp_files = 0
         /\ received = 0
         /\ written = <<>>
         /\ response_method = "HEAD" => requests_made = <<"HEAD">>
         /\ response_method = "GET" => requests_made = <<"HEAD", "GET">>

\* HEAD reported a body over the limit: FileSizeError after that one request.
C14_Witness ==
    /\ DownloadRaised("FileSizeError")
    /\ response_method = "HEAD"
    /\ requests_made = <<"HEAD">>

\* C15: at every chunk received the elapsed time is compared with
\* max_download_seconds: a chunk that arrives strictly later makes the call
\* fail with DownloadTimeoutError, is not written, and the partial file is
\* deleted; the timeout is raised for no other reason; so every chunk written
\* was within the limit and a call that returned wrote every chunk it received.
C15_TimeoutAtEveryChunk ==
    [][ /\ (received' = received + 1 /\ now' > max_download_seconds) =>
             /\ dpc' = "raised"
             /\ download_result'.type = "DownloadTimeoutError"
             /\ written' = written
             /\ temp_files' = 0
        /\ (dpc' = "raised" /\ download_result'.type = "DownloadTimeoutError") =>
             /\ now' > max_download_seconds
             /\ received' = Len(written') + 1
        /\ \A i \in 1..Len(written') : written'[i] <= max_download_seconds
        /\ dpc' = "returned" => received' = Len(written') ]_vars

\* One chunk was written at the limit, the next came a second too late.
C15_Witness ==
    /\ DownloadRaised("DownloadTimeoutError")
    /\ written = <<max_download_seconds>>
    /\ received = 2
    /\ temp_path

\* C16: a call of download_audio that returns leaves exactly one new file,
\* the one it returns; a call that raises, at whatever step, leaves none.
C16_OneFileOrNone ==
    /\ temp_files <= 1
    /\ dpc = "returned" =>
         /\ temp_files = 1
         /\ download_result.status = "returned"
         /\ download_result.path
    /\ dpc = "raised" =>
         /\ temp_files = 0
         /\ download_result.status = "raised"
         /\ download_result.type \in
              {"DownloadError", "FileSizeError", "DownloadTimeoutError"}

\* A write failed after a first chunk was in the file: the file is gone.
C16_Witness ==
    /\ dpc = "raised"
    /\ temp_path
    /\ Len(written) = 1
    /\ received = 2
    /\ download_result.error = "Unexpected error"

\* C17: a URL without a scheme or without a host, the empty string and None
\* included, is refused with DownloadError "Invalid URL" before any request
\* and before any file; a URL with both is never refused that way.
C17_InvalidUrlRejectedFirst ==
    /\ (url \in {"host/a.mp3", "https:///a.mp3", "", "None"}
          /\ dpc \notin {"idle", "validate"}) =>
         /\ dpc = "raised"
         /\ download_result =
              [status |-> "raised", type |-> "DownloadError", error |-> "Invalid URL"]
         /\ requests_made = <<>>
         /\ ~temp_path
         /\ temp_files = 0
    /\ (url = "https://host/a.mp3" /\ dpc = "raised") =>
         download_result.error # "Invalid URL"

\* None was passed as the URL.
C17_Witness ==
    /\ dpc = "raised"
    /\ url = "None"
    /\ download_result.error = "Invalid URL"

RECURSIVE SumDurations(_, _)
SumDurations(segs, n) ==
    IF n = 0 THEN 0
    ELSE (segs[n][2] - segs[n][1]) + SumDurations(segs, n - 1)

\* C18: for audio of length L and a segment size S > 0, chunk_audio returns
\* ceil(L/S) chunks, each with its file, chunk i covering
\* [i*S, min((i+1)*S, L)): the chunks are gapless and do not overlap, every
\* chunk but the last lasts S, the last is not empty and at most S, and the
\* durations add up to L.
C18_ChunksCoverAudio ==
    cpc = "returned" =>
        LET S == ChunkDurationMs(segment_minutes)
            L == total_duration_ms
            n == Len(segments)
        IN  /\ S > 0
            /\ n = ChunkCount(L, S)
            /\ (n - 1) * S < L \/ (n = 0 /\ L = 0)
            /\ L <= n * S
            /\ chunk_result.chunk_paths = n
            /\ segment_files = n
            /\ \A i \in 1..n :
                 /\ segments[i][1] = (i - 1) * S
                 /\ segments[i][2] = IF i * S < L THEN i * S ELSE L
                 /\ segments[i][1] < segments[i][2]
                 /\ segments[i][2] - segments[i][1] <= S
                 /\ i < n => segments[i][2] - segments[i][1] = S
                 /\ i < n => segments[i][2] = segments[i + 1][1]
            /\ n > 0 => segments[n][2] = L
            /\ SumDurations(segments, n) = L

\* Two minutes and a millisecond in one-minute segments: three chunks, the
\* last a millisecond long.
C18_Witness ==
    /\ cpc = "returned"
    /\ segment_minutes = 1
    /\ total_duration_ms = 2 * 60 * 1000 + 1
    /\ Len(segments) = 3
    /\ segments[3] = <<2 * 60 * 1000, 2 * 60 * 1000 + 1>>

\* C20: when the export of a chunk fails, chunk_audio raises one
\* AudioTransformationError and none of the chunk files the call made, the
\* failed chunk's and the earlier ones, is left on disk.
C20_NoChunkFilesAfterFailure ==
    (cpc = "raised" /\ chunk_result.error = "export") =>
        /\ chunk_result.type = "AudioTransformationError"
        /\ segment_files = 0

\* C21: whenever process_episode is at the generation step or past it,
\* transform_audio has completed earlier in that invocation, so what is
\* handed to the generation is the normalized audio.
C21_NormalizedBeforeGeneration ==
    (ppc = "generate" \/ generated) => transformed

\* C23: the episodes of one podcast are launched concurrently: while an
\* episode is still being processed and a later sibling exists, the
\* sibling's process_episode can start.
C23_SiblingsLaunchedConcurrently ==
    (hpc = "awaiting" /\ ppc # "returned" /\ eidx < Len(unprocessed)) =>
        ENABLED StartEpisode(AllFaults)

\* C26: podcasts are handled one after another: the handler moves to the
\* next podcast only when every unprocessed episode of this one has an
\* outcome, no process_episode is running while a feed is fetched or
\* deduplicated, and while an episode is left the handler stays with this
\* podcast and its list: whatever the outcome of an episode, the next
\* sibling is the one looked at next.
C26_PodcastsOneAfterAnother ==
    [][ /\ (pidx >= 1 /\ pidx' > pidx) =>
             /\ hpc = "episodes"
             /\ eidx > Len(unprocessed)
             /\ ppc = "none"
             /\ successful_processes + failed_processes = total_new_episodes
             /\ pidx' = pidx + 1
        /\ hpc' \in {"fetch", "dedupe", "deduped"} =>
             /\ ppc' = "none"
             /\ successful_processes' + failed_processes' = total_new_episodes'
        /\ (hpc \in {"episodes", "awaiting"} /\ eidx <= Len(unprocessed)) =>
             /\ pidx' = pidx
             /\ unprocessed' = unprocessed
             /\ hpc' \in {"episodes", "awaiting"}
             /\ eidx' \in {eidx, eidx + 1}
        /\ (hpc = "awaiting" /\ ppc = "returned") =>
             (hpc' = "episodes" /\ eidx' = eidx + 1) ]_vars

\* The first episode of the second podcast failed and its sibling is being
\* processed.
C26_Witness ==
    /\ hpc = "awaiting"
    /\ pidx = 2
    /\ eidx = 2
    /\ errors # <<>>
    /\ errors[Len(errors)] = [podcast |-> "p2", episode |-> 1]

\* C29: an 'error' result and a row committed by the same invocation never
\* occur together.
C29_ErrorMeansNotCommitted ==
    (ppc = "returned" /\ result.status = "error") => ~committed

\* C30: trigger_email_notification is reached only from a commit that went
\* through, the email function is invoked at most once per invocation, and
\* an invocation that fails at the download, the length, the chunking, the
\* generation or the persistence has invoked nothing.
C30_NotifyOnlyAfterCommitOnce ==
    [][ /\ ppc' = "notify" => (ppc = "persist" /\ committed')
        /\ notified' > notified =>
             /\ ppc = "notify"
             /\ committed
             /\ notified = 0
             /\ notified' = 1
        /\ notified' <= 1
        /\ (ppc \in {"download", "measure", "chunk", "generate", "persist"}
              /\ ppc' = "returned") =>
             notified' = 0 ]_vars

\* A successful invocation that invoked the email function.
C30_Witness ==
    /\ ppc = "returned"
    /\ result.status = "success"
    /\ committed
    /\ notified = 1

\* C25: a call of download_audio that returns has written at most
\* max_file_size_mb to its file, whatever content-length the server
\* reported or left out.
C25_DownloadWithinSizeLimit ==
    dpc = "returned" => downloaded <= LimitBytes

\* A value is a list of paths.
ListOfPaths(value) ==
    /\ value.kind = "list"
    /\ \A i \in 1..Len(value.items) : value.items[i].kind = "str"

\* C28: with chunk_minutes, transform_audio_context yields
\* (full_audio_path, list of chunk paths); once the with-statement is left,
\* normally or by an exception of the block, the full file and every chunk
\* are deleted; and leaving normally raises nothing.
C28_ContextYieldsAndCleansUp ==
    /\ (tpc = "block" /\ chunk_minutes_arg # 0)
          => /\ yielded.kind = "tuple"
             /\ yielded.items[1] = full_audio_path
             /\ ListOfPaths(yielded.items[2])
    /\ (tpc \in {"exited", "raised"} /\ block_end # "none") => disk = {}
    /\ block_end = "normal" => tpc # "raised"

\* The analyses of the chunks passed in, in the order of the chunks.
AnalysesInChunkOrder ==
    [i \in 1..Len(chunk_paths_arg) |-> AnalysisOf(chunk_paths_arg[i])]

\* C22: whatever order the chunk analyses complete in, analyze_chunks
\* returns one analysis per chunk with the analysis of chunk i at position
\* i, and the input of the final generation is the prompt, the analyses in
\* that order, then the full audio.
C22_AnalysesKeepChunkOrder ==
    Len(chunk_paths_arg) > 0 =>
        /\ apc \in {"upload", "write", "returned"}
              => analyses = AnalysesInChunkOrder
        /\ final_calls > 0
              => content_parts = <<Prompt>> \o AnalysesInChunkOrder
                                     \o <<AudioFile("full")>>

C22_Witness ==
    /\ apc = "returned"
    /\ completion = <<3, 1, 2>>
    /\ content_parts = <<Prompt, AnalysisOf("chunk1"), AnalysisOf("chunk2"),
                         AnalysisOf("chunk3"), AudioFile("full")>>

\* C27: with n >= 1 chunks no chunk gets a second analysis request and there
\* is at most one final generation call; when the final call is made every
\* chunk has had exactly one request and its analysis has succeeded; and
\* once a chunk analysis has failed, no final call is made and
\* process_podcast ends by raising AnalyzerError.
C27_FinalCallOnlyAfterAllChunks ==
    Len(chunk_paths_arg) > 0 =>
        /\ \A i \in 1..Len(chunk_requests) : chunk_requests[i] <= 1
        /\ final_calls <= 1
        /\ final_calls > 0
              => \A i \in 1..Len(chunk_paths_arg) :
                    /\ Len(tasks) = Len(chunk_paths_arg)
                    /\ tasks[i] = "done"
                    /\ chunk_requests[i] = 1
        /\ AnyFailed(tasks)
              => /\ final_calls = 0
                 /\ apc \notin {"upload", "write", "returned"}
                 /\ apc = "raised" => podcast_result.kind = "AnalyzerError"

C27_Witness ==
    /\ apc = "raised"
    /\ tasks = <<"done", "failed">>
    /\ chunk_requests = <<1, 1>>
    /\ final_calls = 0
    /\ podcast_result.kind = "AnalyzerError"

\* C24: however the inserts of two overlapping invocations for one
\* (podcast id, GUID) interleave, the store never holds more than one row
\* for the pair, and the invocation that reaches its insert second leaves
\* the store as it is and returns status 'error'.
C24_OneRowPerKeyUnderOverlap ==
    /\ [](\A k \in Keys : store[k] <= 1)
    /\ [][(ppc = "persist" /\ UniqueViolation(store, EpisodeKey)
              /\ ppc' # "persist")
             => /\ store' = store
                /\ ppc' = "returned"
                /\ result'.status = "error"
                /\ ~committed']_vars

C24_Witness ==
    /\ runs = 1
    /\ pidx = 1
    /\ eidx = 1
    /\ ppc = "returned"
    /\ result.status = "error"
    /\ result.error = "unique"
    /\ store[EpisodeKey] = 1

====
